---- MODULE Spec2Model ----
(***************************************************************************)
(* A model of __autoversion__.py: the caller-sensitive version attributes, *)
(* the walk over installed-distribution metadata, the git provider with    *)
(* its path-keyed memo, and the version tupleizer.                         *)
(*                                                                         *)
(* Text is a sequence of one-character strings.  Python's None is the      *)
(* one-element sequence NoneVal, which is no text (no character is         *)
(* "None").  The output of an external command is taken to be well-formed  *)
(* UTF-8, so that .decode("utf-8") is the identity on it.                  *)
(***************************************************************************)
EXTENDS Integers, Sequences, FiniteSets, TLC

VARIABLES environ, registry, git, memo, descCalls, branchCalls, last, argument,
          threads, serialized

vars == <<environ, registry, git, memo, descCalls, branchCalls, last, argument,
          threads, serialized>>

----------------------------------------------------------------------------
(* Bounds of the model. *)

\* No path sees more than MaxCalls invocations of one external command.
MaxCalls == 2

\* The texts handed to tupleize_version directly have at most MaxLen
\* characters (a few longer ones apart, see Arguments).
MaxLen == 4

----------------------------------------------------------------------------
(* Text helpers. *)

NoneVal == <<"None">>

Digits == {"0", "1", "2", "3", "4", "5", "6", "7", "8", "9"}

Whitespace == {" ", "\n", "\t"}

\* s[from..to], empty when from > to
Slice(s, from, to) == IF from > to THEN <<>> ELSE SubSeq(s, from, to)

\* str.startswith(prefix)
StartsWith(s, prefix) ==
    /\ Len(s) >= Len(prefix)
    /\ SubSeq(s, 1, Len(prefix)) = prefix

\* bytes.strip(): leading and trailing whitespace removed
RECURSIVE LStripWs(_)
LStripWs(s) ==
    IF s # <<>> /\ Head(s) \in Whitespace THEN LStripWs(Tail(s)) ELSE s

RECURSIVE RStripWs(_)
RStripWs(s) ==
    IF s # <<>> /\ s[Len(s)] \in Whitespace
    THEN RStripWs(SubSeq(s, 1, Len(s) - 1))
    ELSE s

Strip(s) == RStripWs(LStripWs(s))

\* str.upper() on the characters module names are made of
UpperChar(c) ==
    CASE c = "a" -> "A"
      [] c = "b" -> "B"
      [] c = "c" -> "C"
      [] OTHER -> c

Upper(s) == [i \in 1..Len(s) |-> UpperChar(s[i])]

\* "{}".format(n) for a natural number n: its decimal digits
DigitChar(d) ==
    CASE d = 0 -> "0" [] d = 1 -> "1" [] d = 2 -> "2" [] d = 3 -> "3"
      [] d = 4 -> "4" [] d = 5 -> "5" [] d = 6 -> "6" [] d = 7 -> "7"
      [] d = 8 -> "8" [] d = 9 -> "9"

RECURSIVE FormatInt(_)
FormatInt(n) ==
    IF n < 10 THEN <<DigitChar(n)>>
    ELSE FormatInt(n \div 10) \o <<DigitChar(n % 10)>>

\* the index of the first "." of s, 0 when there is none
FirstDot(s) ==
    IF \E i \in 1..Len(s) : s[i] = "."
    THEN CHOOSE i \in 1..Len(s) :
            /\ s[i] = "."
            /\ \A j \in 1..(i - 1) : s[j] # "."
    ELSE 0

\* Partition with the fault of cutting off the last character only
\* (module_name[:-1]), whether or not the name holds a "."
Partition_LastCharOnly(s) ==
    IF Len(s) <= 1 THEN <<s, <<>>, <<>>>>
    ELSE <<Slice(s, 1, Len(s) - 1), <<".">>, <<s[Len(s)]>>>>

\* str.partition("."): <<head, dot, tail>> around the first "."
Partition(s) ==
    LET i == FirstDot(s) IN
    IF i = 0 THEN <<s, <<>>, <<>>>>
    ELSE <<Slice(s, 1, i - 1), <<".">>, Slice(s, i + 1, Len(s))>>

----------------------------------------------------------------------------
(* The world the program runs in: the environment variables, the installed *)
(* distributions and what the two git commands do at each path.  It is     *)
(* chosen at start and then held fixed.                                    *)

\* the requesting modules' dotted names
ModA == <<"a">>
ModAB == <<"a", ".", "b">>
ModABC == <<"a", ".", "b", ".", "c">>

ModuleNames == {ModA, ModAB, ModABC}

\* the calling frames: one per module, and two with no module
Frames ==
    [module : ModuleNames, co_filename : {<<"m", ".", "p", "y">>}, f_lineno : {7}]
    \cup
    { [module |-> NoneVal, co_filename |-> <<"<", "s", ">">>, f_lineno |-> 1],
      [module |-> NoneVal, co_filename |-> <<"x", ".", "p", "y">>, f_lineno |-> 12] }

\* install locations
PathSite == <<"/", "s">>
PathWork == <<"/", "w">>

Paths == {PathSite, PathWork}

\* the DistributionRecord pkg_resources holds for an installed name
DistRecord(name) ==
    CASE name = ModA -> [location |-> PathSite, version |-> <<"1", ".", "0">>]
      [] name = ModAB -> [location |-> PathWork, version |-> <<"2", ".", "0", "-", "r", "c">>]
      [] name = ModABC -> [location |-> PathSite, version |-> <<"0", ".", "3">>]

Registries == { [n \in S |-> DistRecord(n)] : S \in SUBSET ModuleNames }

\* EnvKey with the fault of not upper-casing the module's name
EnvKey_NoUpper(name) == <<"AUTOVERSION_">> \o name

\* the key of a module's override variable, as os.environ holds it
EnvKey(name) == <<"AUTOVERSION_">> \o Upper(name)

OverrideText == <<"9", ".", "9">>

\* the override variable of module a.b.c, as the environment names it
OverrideKeyABC == <<"AUTOVERSION_", "A", ".", "B", ".", "C">>

\* os.environ: empty, or holding the override of module a.b.c
Environs == { [k \in S |-> OverrideText] : S \in SUBSET {OverrideKeyABC} }

\* what "git describe --tags --dirty" prints (before .strip())
OutTag == <<"v", "1", "\n">>
OutAhead == <<"v", "1", "-", "2", "-", "g", "a", "b", "\n">>
OutTwoMarkers == <<"r", "-", "1", "-", "x", "-", "3", "-", "g", "\n">>

DescribeOutputs == {OutTag, OutAhead, OutTwoMarkers}

\* what "git rev-parse --abbrev-ref HEAD" prints
OutBranch == <<"f", "-", "x", "\n">>

\* a command ends by raising CalledProcessError (nonzero exit, which is
\* also what the shell reports when git is missing), by raising OSError
\* (the command could not be started) or with its output
CommandResults(outputs) ==
    { [exc |-> "CalledProcessError", out |-> <<>>],
      [exc |-> "OSError", out |-> <<>>] }
    \cup { [exc |-> "none", out |-> o] : o \in outputs }

\* the branch command succeeds or exits nonzero
BranchResults == { r \in CommandResults({OutBranch}) : r.exc # "OSError" }

\* what the two commands do at one path.  Where describe fails or prints no
\* "-<digits>-" the branch command is never run, and only one behaviour of
\* it is kept.
GitWorlds ==
    { w \in [describe : CommandResults(DescribeOutputs), branch : BranchResults] :
        (w.describe.exc # "none" \/ w.describe.out = OutTag)
            => w.branch.exc = "none" }

----------------------------------------------------------------------------
(* Results of calls.  A call returns the exception it raised ("none" when  *)
(* it returned), its value, the memo as it leaves it and the trace of the  *)
(* interactions with the outside it made, in order.                        *)

Ev(kind, arg) == <<kind, arg>>

Result(exc, ret, m, trace) ==
    [exc |-> exc, ret |-> ret, memo |-> m, trace |-> trace]

\* a call's result with the trace of what preceded it in its caller put first
After(trace, r) == Result(r.exc, r.ret, r.memo, trace \o r.trace)

\* memo[path] = v
Put(m, path, v) == [p \in DOMAIN m \cup {path} |-> IF p = path THEN v ELSE m[p]]

\* subprocess.check_output(cmd, shell=True, cwd=path)
check_output(cmd, path) == git[path][cmd]

----------------------------------------------------------------------------
(* The regular expression "-[0-9]+-" of Git.get_version. *)

\* the last index of the run of digits of s that starts at k (k - 1 when
\* s[k] is no digit): what the greedy [0-9]+ consumes
RECURSIVE DigitRunEnd(_, _)
DigitRunEnd(s, k) ==
    IF k <= Len(s) /\ s[k] \in Digits THEN DigitRunEnd(s, k + 1) ELSE k - 1

\* the index of the closing "-" when "-[0-9]+-" matches s at i, else 0
MarkerEnd(s, i) ==
    LET e == DigitRunEnd(s, i + 1) IN
    IF /\ s[i] = "-"
       /\ e >= i + 1
       /\ e + 1 <= Len(s)
       /\ s[e + 1] = "-"
    THEN e + 1
    ELSE 0

\* re.search("-[0-9]+-", s): the start of the leftmost match, 0 for None
re_search(s) ==
    IF \E i \in 1..Len(s) : MarkerEnd(s, i) # 0
    THEN CHOOSE i \in 1..Len(s) :
            /\ MarkerEnd(s, i) # 0
            /\ \A j \in 1..(i - 1) : MarkerEnd(s, j) = 0
    ELSE 0

\* BranchTemplate with the fault of putting the branch after the digits
BranchTemplate_AfterDigits(branch) == <<"-", "\\1", "-">> \o branch \o <<"-">>

\* r"-{0}-\1-".format(branch): the replacement template, "\\1" standing
\* for the reference to group 1
BranchTemplate(branch) == <<"-">> \o branch \o <<"-", "\\1", "-">>

\* the template with its group reference replaced by the group's text
RECURSIVE Expand(_, _)
Expand(template, group) ==
    IF template = <<>> THEN <<>>
    ELSE (IF Head(template) = "\\1" THEN group ELSE <<Head(template)>>)
         \o Expand(Tail(template), group)

\* re.subn("-([0-9]+)-", template, s, 1)[0]: the leftmost match replaced
re_subn(template, s) ==
    LET i == re_search(s)
        j == MarkerEnd(s, i)
    IN  IF i = 0 THEN s
        ELSE Slice(s, 1, i - 1)
             \o Expand(template, Slice(s, i + 1, j - 1))
             \o Slice(s, j + 1, Len(s))

----------------------------------------------------------------------------
(* class Git *)

\* Git.get_branch(path)
Git_get_branch(path, m) ==
    LET r == check_output("branch", path) IN
    IF r.exc # "none"
    THEN Result(r.exc, NoneVal, m, <<Ev("branch", path)>>)
    ELSE Result("none", Strip(r.out), m, <<Ev("branch", path)>>)

\* the body of "if path not in memo" in Git.get_version, and the return
\* after it: memo[path] is assigned the stripped output of describe and
\* then, when it holds "-<digits>-", the text with the branch put in
DescribeAndStore(path, m) ==
    LET d == check_output("describe", path)
        tr1 == <<Ev("describe", path)>>
    IN
    IF d.exc # "none" THEN Result(d.exc, NoneVal, m, tr1)
    ELSE
      LET m1 == Put(m, path, Strip(d.out)) IN
      IF re_search(m1[path]) = 0 THEN Result("none", m1[path], m1, tr1)
      ELSE
        LET b == Git_get_branch(path, m1)
            tr2 == tr1 \o b.trace
        IN
        IF b.exc # "none" THEN Result(b.exc, NoneVal, m1, tr2)
        ELSE
          LET m2 == Put(m1, path, re_subn(BranchTemplate(b.ret), m1[path]))
          IN Result("none", m2[path], m2, tr2)

\* Git.get_version with the fault of never looking into memo
Git_get_version_NoMemo(path, m) == DescribeAndStore(path, m)

\* Git.get_version(path), memo being its default argument
Git_get_version(path, m) ==
    IF path \in DOMAIN m THEN Result("none", m[path], m, <<>>)
    ELSE DescribeAndStore(path, m)

\* TryGetVersion with the fault of not catching OSError
TryGetVersion_NoOSError(v) ==
    CASE v.exc = "none" -> Result("none", <<"True">>, v.memo, v.trace)
      [] v.exc = "CalledProcessError" -> Result("none", <<"False">>, v.memo, v.trace)
      [] OTHER -> Result(v.exc, NoneVal, v.memo, v.trace)

\* the try statement of Git.is_repo_instance around the call that ended
\* as v: True when it returned, False on the two exceptions caught
TryGetVersion(v) ==
    CASE v.exc = "none" -> Result("none", <<"True">>, v.memo, v.trace)
      [] v.exc = "CalledProcessError" -> Result("none", <<"False">>, v.memo, v.trace)
      [] v.exc = "OSError" -> Result("none", <<"False">>, v.memo, v.trace)
      [] OTHER -> Result(v.exc, NoneVal, v.memo, v.trace)

\* Git.is_repo_instance with the fault of handing get_version a memo of
\* its own, empty at every call: the caller's memo m is what stays
Git_is_repo_instance_FreshMemo(path, m) ==
    [TryGetVersion(Git_get_version(path, <<>>)) EXCEPT !.memo = m]

\* Git.is_repo_instance(path): ret is <<"True">> or <<"False">>
Git_is_repo_instance(path, m) == TryGetVersion(Git_get_version(path, m))

\* the loop of get_repo_type over repo_types = [Git], r being the result
\* of Git.is_repo_instance: ret is <<"Git">> or None
FirstRepoType(r) ==
    IF r.exc # "none" THEN r
    ELSE IF r.ret = <<"True">> THEN Result("none", <<"Git">>, r.memo, r.trace)
    ELSE Result("none", NoneVal, r.memo, r.trace)

\* get_repo_type(path)
get_repo_type(path, m) == FirstRepoType(Git_is_repo_instance(path, m))

----------------------------------------------------------------------------
(* Distribution metadata. *)

\* pkg_resources.get_distribution(name): the record, or DistributionNotFound
get_distribution(name) ==
    IF name \in DOMAIN registry
    THEN [exc |-> "none", dist |-> registry[name], trace |-> <<Ev("lookup", name)>>]
    ELSE [exc |-> "DistributionNotFound", dist |-> NoneVal,
          trace |-> <<Ev("lookup", name)>>]

\* VersionOf with the fault of returning the recorded version in any case
VersionOf_AlwaysRecorded(distribution, t) ==
    IF t.exc # "none" THEN t
    ELSE Result("none", distribution.version, t.memo, t.trace)

\* getversion after get_repo_type(distribution.location) ended as t
VersionOf(distribution, t) ==
    IF t.exc # "none" THEN t
    ELSE IF t.ret = NoneVal
    THEN Result("none", distribution.version, t.memo, t.trace)
    ELSE After(t.trace, Git_get_version(distribution.location, t.memo))

\* getversion(package); get_distribution returns no None, so that the
\* RuntimeError of line 90 is never raised
getversion(package, m) ==
    LET g == get_distribution(package) IN
    IF g.exc # "none" THEN Result(g.exc, NoneVal, m, g.trace)
    ELSE After(g.trace, VersionOf(g.dist, get_repo_type(g.dist.location, m)))

----------------------------------------------------------------------------
(* version_from_frame *)

\* UnknownFrom with the fault of formatting the line before the file
UnknownFrom_Swapped(frame) ==
    <<"<", "u", "n", "k", "n", "o", "w", "n", " ", "f", "r", "o", "m", " ">>
    \o FormatInt(frame.f_lineno) \o <<":">> \o frame.co_filename \o <<">">>

\* the synthetic descriptor "<unknown from {0}:{1}>"
UnknownFrom(frame) ==
    <<"<", "u", "n", "k", "n", "o", "w", "n", " ", "f", "r", "o", "m", " ">>
    \o frame.co_filename \o <<":">> \o FormatInt(frame.f_lineno) \o <<">">>

\* the while loop of version_from_frame, entered with module_name
RECURSIVE FallbackWalk(_, _)
FallbackWalk(module_name, m) ==
    LET g == get_distribution(module_name) IN
    IF g.exc = "DistributionNotFound"
    THEN LET left == Partition(module_name) IN
         IF left[2] = <<>>
         THEN Result("none", NoneVal, m, g.trace)
         ELSE After(g.trace, FallbackWalk(left[1], m))
    ELSE After(g.trace, getversion(module_name, m))

\* version_from_frame(frame)
version_from_frame(frame, m) ==
    LET module == frame.module IN
    IF module = NoneVal THEN Result("none", UnknownFrom(frame), m, <<>>)
    ELSE
      LET variable == EnvKey(module)
          tr == <<Ev("environ", variable)>>
      IN
      IF variable \in DOMAIN environ
      THEN Result("none", environ[variable], m, tr)
      ELSE After(tr, FallbackWalk(module, m))

----------------------------------------------------------------------------
(* tupleize_version.  An element of a version tuple is <<"int", n>> or     *)
(* <<"str", text>>.  A ValueError raised on the way out of                 *)
(* tupleize_version is the value RaisedValueError, which is no version     *)
(* tuple (no element of one is tagged "raise").                            *)

RaisedValueError ==
    << << <<"raise", <<"V", "a", "l", "u", "e", "E", "r", "r", "o", "r">>>> >> >>

UnknownTuple == << << <<"str", <<"u", "n", "k", "n", "o", "w", "n">>>> >> >>

\* re.split("(?:\.|(-))", s) from index k on, cur being the piece read so
\* far: a "." leaves None in the list (its group took no part), a "-"
\* leaves "-"
\* SplitFrom with the fault of capturing the "." as well, which then stays
\* in the list
RECURSIVE SplitFrom_DotCaptured(_, _, _)
SplitFrom_DotCaptured(s, k, cur) ==
    IF k > Len(s) THEN <<cur>>
    ELSE IF s[k] \in {".", "-"}
    THEN <<cur, <<s[k]>>>> \o SplitFrom_DotCaptured(s, k + 1, <<>>)
    ELSE SplitFrom_DotCaptured(s, k + 1, Append(cur, s[k]))

RECURSIVE SplitFrom(_, _, _)
SplitFrom(s, k, cur) ==
    IF k > Len(s) THEN <<cur>>
    ELSE IF s[k] = "." THEN <<cur, NoneVal>> \o SplitFrom(s, k + 1, <<>>)
    ELSE IF s[k] = "-" THEN <<cur, <<"-">>>> \o SplitFrom(s, k + 1, <<>>)
    ELSE SplitFrom(s, k + 1, Append(cur, s[k]))

re_split(s) == SplitFrom(s, 1, <<>>)

\* the characters str.isdigit() accepts and int() does not: digits that are
\* no decimal digits, as the superscript two
NonDecimalDigits == {"²"}

\* int(n) raises ValueError
int_raises(n) == \E i \in 1..Len(n) : n[i] \notin Digits

\* int(n) for a text of decimal digits
RECURSIVE ParseInt(_)
ParseInt(n) ==
    IF n = <<>> THEN 0
    ELSE 10 * ParseInt(SubSeq(n, 1, Len(n) - 1))
         + (CHOOSE d \in 0..9 : DigitChar(d) = n[Len(n)])

\* str.lstrip("0")
RECURSIVE LStripZeros(_)
LStripZeros(n) ==
    IF n # <<>> /\ Head(n) = "0" THEN LStripZeros(Tail(n)) ELSE n

\* str.isdigit()
IsDigit(n) ==
    n # <<>> /\ \A i \in 1..Len(n) : n[i] \in Digits \cup NonDecimalDigits

\* try_fix_num(n); the ValueError of int(n) is the element RaisedValueError
\* is made of
try_fix_num(n) ==
    IF ~IsDigit(n) THEN <<"str", n>>
    ELSE
      LET n1 == IF StartsWith(n, <<"0">>) THEN LStripZeros(n) ELSE n
          n2 == IF n1 = <<>> THEN <<"0">> ELSE n1
      IN IF int_raises(n2) THEN RaisedValueError[1][1]
         ELSE <<"int", ParseInt(n2)>>

\* FixAll with the fault of leaving out None only ("if x is not None"), and
\* not the empty pieces
RECURSIVE FixAll_KeepEmpty(_)
FixAll_KeepEmpty(split) ==
    IF split = <<>> THEN <<>>
    ELSE LET x == Head(split) IN
         (IF x = NoneVal THEN <<>> ELSE <<try_fix_num(x)>>)
         \o FixAll_KeepEmpty(Tail(split))

\* tuple(try_fix_num(x) for x in split if x)
RECURSIVE FixAll(_)
FixAll(split) ==
    IF split = <<>> THEN <<>>
    ELSE LET x == Head(split) IN
         (IF x = NoneVal \/ x = <<>> THEN <<>> ELSE <<try_fix_num(x)>>)
         \o FixAll(Tail(split))

\* is_dash(s)
is_dash(s) == s = <<"str", <<"-">>>>

\* itertools.groupby(parsed, is_dash): the runs of equal key, as
\* <<key, group>> pairs
RECURSIVE GroupBy(_)
GroupBy(parsed) ==
    IF parsed = <<>> THEN <<>>
    ELSE
      LET rest == GroupBy(Tail(parsed))
          k == is_dash(Head(parsed))
      IN
      IF rest # <<>> /\ rest[1][1] = k
      THEN <<<<k, <<Head(parsed)>> \o rest[1][2]>>>> \o Tail(rest)
      ELSE <<<<k, <<Head(parsed)>>>>>> \o rest

\* tuple(tuple(group) for dash, group in grouped if not dash)
RECURSIVE NotDashGroups(_)
NotDashGroups(grouped) ==
    IF grouped = <<>> THEN <<>>
    ELSE (IF grouped[1][1] THEN <<>> ELSE <<grouped[1][2]>>)
         \o NotDashGroups(Tail(grouped))

\* the groups of the elements parsed, unless making one of them raised
Grouped(parsed) ==
    IF \E i \in 1..Len(parsed) : parsed[i] = RaisedValueError[1][1]
    THEN RaisedValueError
    ELSE NotDashGroups(GroupBy(parsed))

\* tupleize_version from its split on: the groups of a version text
SplitAndGroup(version) == Grouped(FixAll(re_split(version)))

\* tupleize_version with the fault of not testing for None
tupleize_version_NoNone(version) ==
    IF StartsWith(version, <<"<", "u", "n", "k", "n", "o", "w", "n">>)
    THEN UnknownTuple
    ELSE SplitAndGroup(version)

\* tupleize_version(version)
tupleize_version(version) ==
    IF version = NoneVal THEN UnknownTuple
    ELSE IF StartsWith(version, <<"<", "u", "n", "k", "n", "o", "w", "n">>)
    THEN UnknownTuple
    ELSE SplitAndGroup(version)

----------------------------------------------------------------------------
(* class Module: the two caller-sensitive attributes. *)

\* Module.__version__, read from the frame prev_frame
Module___version__(prev_frame, m) == version_from_frame(prev_frame, m)

\* tupleize_version applied to what the call v returned (to nothing when
\* it raised): the call, which raises if tupleize_version does, and the
\* tuple
Tupleized(v) ==
    IF v.exc # "none" THEN [call |-> v, tup |-> <<>>]
    ELSE IF tupleize_version(v.ret) = RaisedValueError
    THEN [call |-> [v EXCEPT !.exc = "ValueError", !.ret = NoneVal], tup |-> <<>>]
    ELSE [call |-> v, tup |-> tupleize_version(v.ret)]

\* Module.__version_tuple__, read from the frame prev_frame
Module___version_tuple__(prev_frame, m) ==
    Tupleized(version_from_frame(prev_frame, m))

----------------------------------------------------------------------------
(* The state machine.  memo is the dictionary Git.get_version memoizes in; *)
(* descCalls and branchCalls count, per path, the describe and branch      *)
(* commands run so far; last records the latest call: what was called,     *)
(* with what, what it raised and returned, what it asked of the outside,   *)
(* and the memo as the call found it.                                      *)

\* the threads that call Git.get_version at the same time (see
\* SpecThreads); in the other behaviours they stay idle
Threads == {"t1", "t2"}

\* a thread is at a line of Git.get_version (pc), called with path; branch
\* is its local of that name, hit whether it found path in memo at line
\* 42, stores the number of times it assigned memo[path], exc and ret what
\* it raised or returned
IdleThread ==
    [pc |-> "idle", path |-> NoneVal, branch |-> NoneVal, hit |-> FALSE,
     stores |-> 0, exc |-> "none", ret |-> NoneVal]

NoFrame == [module |-> NoneVal, co_filename |-> <<>>, f_lineno |-> 0]

Record(op, frame, path, r, tup) ==
    [op |-> op, frame |-> frame, path |-> path, exc |-> r.exc, ret |-> r.ret,
     tup |-> tup, trace |-> r.trace, memoBefore |-> memo]

\* how often event e occurs in trace
RECURSIVE CountOf(_, _)
CountOf(trace, e) ==
    IF trace = <<>> THEN 0
    ELSE (IF Head(trace) = e THEN 1 ELSE 0) + CountOf(Tail(trace), e)

\* the effect of a call with result r on the program's state, within the
\* bound on the number of commands run
Commit(r) ==
    /\ \A p \in Paths :
          /\ descCalls[p] + CountOf(r.trace, Ev("describe", p)) <= MaxCalls
          /\ branchCalls[p] + CountOf(r.trace, Ev("branch", p)) <= MaxCalls
    /\ memo' = r.memo
    /\ descCalls' =
          [p \in Paths |-> descCalls[p] + CountOf(r.trace, Ev("describe", p))]
    /\ branchCalls' =
          [p \in Paths |-> branchCalls[p] + CountOf(r.trace, Ev("branch", p))]
    /\ UNCHANGED <<environ, registry, git, argument, threads, serialized>>

Init ==
    /\ environ \in Environs
    /\ registry \in Registries
    /\ git \in [Paths -> GitWorlds]
    /\ memo = <<>>
    /\ descCalls = [p \in Paths |-> 0]
    /\ branchCalls = [p \in Paths |-> 0]
    /\ last = [op |-> "init", frame |-> NoFrame, path |-> NoneVal,
               exc |-> "none", ret |-> NoneVal, tup |-> <<>>, trace |-> <<>>,
               memoBefore |-> <<>>]
    /\ argument = NoneVal
    /\ threads = [t \in Threads |-> IdleThread]
    /\ serialized = TRUE

\* a call that ended as r takes effect and is recorded
Call(op, frame, path, r, tup) ==
    /\ Commit(r)
    /\ last' = Record(op, frame, path, r, tup)

\* the same for a call that ended with a tuple made of its result
CallTupleized(op, frame, t) == Call(op, frame, NoneVal, t.call, t.tup)

\* a module (or a frame without one) reads __autoversion__.__version__
ReadVersion(frame) ==
    Call("__version__", frame, NoneVal, Module___version__(frame, memo), <<>>)

\* a module (or a frame without one) reads __autoversion__.__version_tuple__
ReadVersionTuple(frame) ==
    CallTupleized("__version_tuple__", frame,
                  Module___version_tuple__(frame, memo))

\* a direct call of Git.get_version(path)
CallGetVersion(path) ==
    Call("get_version", NoFrame, path, Git_get_version(path, memo), <<>>)

\* a direct call of Git.is_repo_instance(path)
CallIsRepoInstance(path) ==
    Call("is_repo_instance", NoFrame, path, Git_is_repo_instance(path, memo), <<>>)

Next ==
    \/ \E frame \in Frames : ReadVersion(frame)
    \/ \E frame \in Frames : ReadVersionTuple(frame)
    \/ \E path \in Paths : CallGetVersion(path)
    \/ \E path \in Paths : CallIsRepoInstance(path)

Spec == Init /\ [][Next]_vars

----------------------------------------------------------------------------
(* tupleize_version called on its own: argument is what it is called with, *)
(* any text of up to MaxLen characters of Alphabet, the texts of the       *)
(* docstring and one more, None, or an unknown-caller text.  No command is run and no   *)
(* metadata is read in these behaviours.                                   *)

Alphabet == {"0", "1", "a", ".", "-", "²"}

ExampleTexts ==
    { <<"1", ".", "0", ".", "3">>,
      <<"1", ".", "0", ".", "3", "-", "d", "e", "v">>,
      <<"1", ".", "0", ".", "3", "-", "r", "c", "-", "5">>,
      <<"0", "0", "7", ".", "0", "0", "0", "-", "0", "1", "0", "a">> }

UnknownCallerText ==
    <<"<", "u", "n", "k", "n", "o", "w", "n", " ", "f", "r", "o", "m", " ",
      "x", ".", "p", "y", ":", "1", "2", ">">>

Arguments ==
    UNION { [1..k -> Alphabet] : k \in 0..MaxLen }
    \cup ExampleTexts \cup {NoneVal, UnknownCallerText}

\* a direct call of tupleize_version that ended with t: the call, and the
\* tuple
DirectTupleized(t) ==
    IF t = RaisedValueError
    THEN [call |-> Result("ValueError", NoneVal, memo, <<>>), tup |-> <<>>]
    ELSE [call |-> Result("none", NoneVal, memo, <<>>), tup |-> t]

InitTupleize ==
    /\ environ = <<>>
    /\ registry = <<>>
    /\ git = [p \in Paths |->
                [describe |-> [exc |-> "OSError", out |-> <<>>],
                 branch |-> [exc |-> "none", out |-> OutBranch]]]
    /\ memo = <<>>
    /\ descCalls = [p \in Paths |-> 0]
    /\ branchCalls = [p \in Paths |-> 0]
    /\ last = [op |-> "init", frame |-> NoFrame, path |-> NoneVal,
               exc |-> "none", ret |-> NoneVal, tup |-> <<>>, trace |-> <<>>,
               memoBefore |-> <<>>]
    /\ argument \in Arguments
    /\ threads = [t \in Threads |-> IdleThread]
    /\ serialized = TRUE

\* tupleize_version(argument) is called, once
CallTupleizeVersion ==
    /\ last.op = "init"
    /\ CallTupleized("tupleize_version", NoFrame,
                     DirectTupleized(tupleize_version(argument)))

NextTupleize == CallTupleizeVersion

SpecTupleize == InitTupleize /\ [][NextTupleize]_vars

----------------------------------------------------------------------------
(* Git.get_version called by two threads, each once, a statement at a      *)
(* time: the threads share memo, and whatever a statement reads of memo it *)
(* reads when the statement is run.  When serialized holds, the callers     *)
(* see to it that no call begins while another is under way.               *)

\* AfterTest with the fault of not looking into memo
AfterTest_NoMemo(path, m) == "describe"

\* line 42, if path not in memo: where the thread goes on
AfterTest(path, m) == IF path \in DOMAIN m THEN "return" ELSE "describe"

InitThreads ==
    /\ environ = <<>>
    /\ registry = <<>>
    /\ git \in [Paths -> GitWorlds]
    /\ memo = <<>>
    /\ descCalls = [p \in Paths |-> 0]
    /\ branchCalls = [p \in Paths |-> 0]
    /\ last = [op |-> "init", frame |-> NoFrame, path |-> NoneVal,
               exc |-> "none", ret |-> NoneVal, tup |-> <<>>, trace |-> <<>>,
               memoBefore |-> <<>>]
    /\ argument = NoneVal
    /\ threads = [t \in Threads |-> IdleThread]
    /\ serialized \in BOOLEAN

\* thread t is inside a call
Busy(t) == threads[t].pc \notin {"idle", "done"}

\* thread t calls Git.get_version(path)
Begin(t, path) ==
    /\ threads[t].pc = "idle"
    /\ serialized => \A u \in Threads : ~Busy(u)
    /\ threads' = [threads EXCEPT ![t].pc = "test", ![t].path = path]
    /\ UNCHANGED <<environ, registry, git, memo, descCalls, branchCalls, last,
                   argument, serialized>>

\* line 42: if path not in memo
TestMemo(t) ==
    /\ threads[t].pc = "test"
    /\ threads' = [threads EXCEPT
                     ![t].pc = AfterTest(threads[t].path, memo),
                     ![t].hit = threads[t].path \in DOMAIN memo]
    /\ UNCHANGED <<environ, registry, git, memo, descCalls, branchCalls, last,
                   argument, serialized>>

\* lines 43 to 45: memo[path] = check_output(describe).strip().decode(),
\* the command having ended as d
Describe(t, path, d) ==
    /\ threads[t].pc = "describe"
    /\ descCalls' = [descCalls EXCEPT ![path] = @ + 1]
    /\ IF d.exc # "none"
       THEN /\ threads' = [threads EXCEPT ![t].pc = "done", ![t].exc = d.exc]
            /\ memo' = memo
       ELSE /\ threads' = [threads EXCEPT ![t].pc = "search", ![t].stores = @ + 1]
            /\ memo' = Put(memo, path, Strip(d.out))
    /\ UNCHANGED <<environ, registry, git, branchCalls, last, argument,
                   serialized>>

RunDescribe(t) ==
    Describe(t, threads[t].path, check_output("describe", threads[t].path))

\* lines 47 and 48: v = re.search("-[0-9]+-", memo[path]); if v is not None
Search(t) ==
    /\ threads[t].pc = "search"
    /\ threads' = [threads EXCEPT
                     ![t].pc = IF re_search(memo[threads[t].path]) = 0
                               THEN "return" ELSE "branch"]
    /\ UNCHANGED <<environ, registry, git, memo, descCalls, branchCalls, last,
                   argument, serialized>>

\* line 50: branch = r"-{0}-\1-".format(cls.get_branch(path)), the call of
\* get_branch having ended as b
Branch(t, path, b) ==
    /\ threads[t].pc = "branch"
    /\ branchCalls' = [branchCalls EXCEPT ![path] = @ + 1]
    /\ threads' = IF b.exc # "none"
                  THEN [threads EXCEPT ![t].pc = "done", ![t].exc = b.exc]
                  ELSE [threads EXCEPT ![t].pc = "subn",
                                       ![t].branch = BranchTemplate(b.ret)]
    /\ UNCHANGED <<environ, registry, git, memo, descCalls, last, argument,
                   serialized>>

RunBranch(t) ==
    Branch(t, threads[t].path, Git_get_branch(threads[t].path, memo))

\* line 51: (memo[path], _) = re.subn("-([0-9]+)-", branch, memo[path], 1)
Rewrite(t) ==
    /\ threads[t].pc = "subn"
    /\ memo' = Put(memo, threads[t].path,
                   re_subn(threads[t].branch, memo[threads[t].path]))
    /\ threads' = [threads EXCEPT ![t].pc = "return", ![t].stores = @ + 1]
    /\ UNCHANGED <<environ, registry, git, descCalls, branchCalls, last,
                   argument, serialized>>

\* line 53: return memo[path]
Return(t) ==
    /\ threads[t].pc = "return"
    /\ threads' = [threads EXCEPT ![t].pc = "done",
                                  ![t].ret = memo[threads[t].path]]
    /\ UNCHANGED <<environ, registry, git, memo, descCalls, branchCalls, last,
                   argument, serialized>>

NextThreads ==
    \/ \E t \in Threads : \E path \in Paths : Begin(t, path)
    \/ \E t \in Threads : TestMemo(t)
    \/ \E t \in Threads : RunDescribe(t)
    \/ \E t \in Threads : Search(t)
    \/ \E t \in Threads : RunBranch(t)
    \/ \E t \in Threads : Rewrite(t)
    \/ \E t \in Threads : Return(t)

SpecThreads == InitThreads /\ [][NextThreads]_vars

----------------------------------------------------------------------------
(* What the claims speak of, read off the record of the latest call. *)

\* the latest call read one of the two version attributes
IsRead == last.op \in {"__version__", "__version_tuple__"}

\* ... from a frame whose module is known and has no override set
IsWalk ==
    /\ IsRead
    /\ last.frame.module # NoneVal
    /\ \A k \in DOMAIN environ : <<"environ", k>> \notin {last.trace[i] : i \in 1..Len(last.trace)}

IsLookup(e) == e[1] = "lookup"

\* the names the latest call looked up in the metadata, in order
LookedUp == [i \in 1..Len(SelectSeq(last.trace, IsLookup)) |->
                SelectSeq(last.trace, IsLookup)[i][2]]

\* the walk of the latest call ended on an installed name
WalkMatched ==
    /\ IsWalk
    /\ LookedUp # <<>>
    /\ LookedUp[Len(LookedUp)] \in DOMAIN registry

\* the name it ended on
MatchedName == LookedUp[Len(LookedUp)]

\* the index of the last "." of s, 0 when there is none
LastDot(s) ==
    IF \E i \in 1..Len(s) : s[i] = "."
    THEN CHOOSE i \in 1..Len(s) :
            /\ s[i] = "."
            /\ \A j \in (i + 1)..Len(s) : s[j] # "."
    ELSE 0

\* a dotted name and what is left of it after cutting at the last dot,
\* again and again: a.b.c, a.b, a
RECURSIVE DottedPrefixes(_)
DottedPrefixes(name) ==
    IF LastDot(name) = 0 THEN <<name>>
    ELSE <<name>> \o DottedPrefixes(SubSeq(name, 1, LastDot(name) - 1))

\* the text s holds "-<digits>-" from index i to index j
IsMarkerAt(s, i, j) ==
    /\ i \in 1..Len(s) /\ j \in 1..Len(s)
    /\ j > i + 1
    /\ s[i] = "-" /\ s[j] = "-"
    /\ \A k \in (i + 1)..(j - 1) : s[k] \in Digits

HasDistanceMarker(s) == \E i, j \in 1..Len(s) : IsMarkerAt(s, i, j)

\* a command of the latest call's trace failed
CommandFailed ==
    \E i \in 1..Len(last.trace) :
        /\ last.trace[i][1] \in {"describe", "branch"}
        /\ git[last.trace[i][2]][last.trace[i][1]].exc # "none"

----------------------------------------------------------------------------
(* C1: with no override set, a version request resolves the most specific  *)
(* installed package matching a prefix of the requesting module's name:    *)
(* the walk ends on the longest dotted prefix (cutting at the LAST dot)    *)
(* that has a metadata entry.                                              *)
C1_LongestInstalledPrefix ==
    IsWalk =>
        LET ps == DottedPrefixes(last.frame.module)
            hits == {i \in 1..Len(ps) : ps[i] \in DOMAIN registry}
        IN hits # {} =>
             /\ WalkMatched
             /\ MatchedName = ps[CHOOSE i \in hits : \A j \in hits : i <= j]

(* C2: for a module name of k dot-separated components none of whose       *)
(* prefixes is installed, the walk looks up exactly the k prefixes, the     *)
(* full name first and the top-level component last, and returns None.      *)
C2_ExactlyKLookups ==
    (/\ IsWalk
     /\ \A i \in 1..Len(DottedPrefixes(last.frame.module)) :
            DottedPrefixes(last.frame.module)[i] \notin DOMAIN registry)
    => /\ LookedUp = DottedPrefixes(last.frame.module)
       /\ last.ret = NoneVal

(* C3: when the walk matches a distribution, the request returns the        *)
(* provider's descriptor for its location (not the recorded version) if     *)
(* detect is true of the location, and exactly the recorded version if      *)
(* detect is false.                                                         *)
C3_DescriptorOrRecorded ==
    WalkMatched =>
        LET d == registry[MatchedName]
            detect == Git_is_repo_instance(d.location, last.memoBefore)
        IN /\ last.exc = "none"
           /\ detect.ret = <<"True">> =>
                /\ d.location \in DOMAIN memo
                /\ last.ret = memo[d.location]
           /\ detect.ret = <<"False">> => last.ret = d.version

\* C3 witness: a request answered from a working copy, with the branch put in
C3_Witness ==
    /\ WalkMatched
    /\ last.ret # registry[MatchedName].version
    /\ registry[MatchedName].location \in DOMAIN memo
    /\ last.ret = memo[registry[MatchedName].location]
    /\ last.ret = <<"v", "1", "-", "f", "-", "x", "-", "2", "-", "g", "a", "b">>

----------------------------------------------------------------------------
\* the stripped text the describe command prints at path p
RawAt(p) == Strip(git[p].describe.out)

\* the stripped text the branch command prints at path p
BranchAt(p) == Strip(git[p].branch.out)

\* the latest call was Git.get_version for a path memo already held
IsSecondGetVersion ==
    /\ last.op = "get_version"
    /\ last.path \in DOMAIN last.memoBefore

(* C4: where the describe command succeeds, the describe command is run    *)
(* exactly once for a path however often Git.get_version is called for it, *)
(* the branch command exactly once if the raw descriptor holds a distance  *)
(* marker and never if it does not; a call that finds the path in memo     *)
(* returns the cached descriptor and runs no command.                      *)
C4_OneDescribeAtMostOneBranch ==
    /\ \A p \in Paths :
          (git[p].describe.exc = "none" /\ p \in DOMAIN memo) =>
              /\ descCalls[p] = 1
              /\ branchCalls[p] = IF HasDistanceMarker(RawAt(p)) THEN 1 ELSE 0
    /\ IsSecondGetVersion =>
          /\ last.exc = "none"
          /\ last.trace = <<>>
          /\ last.ret = last.memoBefore[last.path]
          /\ memo = last.memoBefore

\* C4 witness: a second call for a path whose descriptor holds a distance marker
C4_Witness ==
    /\ IsSecondGetVersion
    /\ HasDistanceMarker(RawAt(last.path))
    /\ descCalls[last.path] = 1
    /\ branchCalls[last.path] = 1

\* C4 as first stated: after two calls for a path there has been exactly
\* one describe command and exactly one branch command
C4_ExactlyOneBranch ==
    (IsSecondGetVersion /\ git[last.path].describe.exc = "none") =>
        /\ descCalls[last.path] = 1
        /\ branchCalls[last.path] = 1

\* the latest call was a Git.get_version that ran describe and returned
IsFirstGetVersion ==
    /\ last.op = "get_version"
    /\ last.path \notin DOMAIN last.memoBefore
    /\ last.exc = "none"

\* the text raw with ins put in at its first distance marker: before the
\* digits (ahead) or after them
Injected(raw, ins, ahead) ==
    LET i == CHOOSE i \in 1..Len(raw) :
                /\ \E j \in 1..Len(raw) : IsMarkerAt(raw, i, j)
                /\ \A i2 \in 1..(i - 1) : \A j2 \in 1..Len(raw) : ~IsMarkerAt(raw, i2, j2)
        j == CHOOSE j \in 1..Len(raw) : IsMarkerAt(raw, i, j)
        pre == IF i = 1 THEN <<>> ELSE SubSeq(raw, 1, i - 1)
        num == SubSeq(raw, i + 1, j - 1)
        post == IF j = Len(raw) THEN <<>> ELSE SubSeq(raw, j + 1, Len(raw))
    IN IF ahead
       THEN pre \o <<"-">> \o ins \o <<"-">> \o num \o <<"-">> \o post
       ELSE pre \o <<"-">> \o num \o <<"-">> \o ins \o <<"-">> \o post

(* C5: when the raw descriptor holds a distance marker "-<digits>-", the   *)
(* branch name is put in between the dashes BEFORE the digits, at the      *)
(* first marker only: raw v1.2.3-4-gabcdef on branch feature-x becomes     *)
(* v1.2.3-feature-x-4-gabcdef; a raw descriptor with no marker is returned *)
(* as it is and the branch command is not run.                             *)
C5_BranchBeforeDigits ==
    /\ re_subn(BranchTemplate(<<"f", "e", "a", "t", "u", "r", "e", "-", "x">>),
               <<"v", "1", ".", "2", ".", "3", "-", "4", "-",
                 "g", "a", "b", "c", "d", "e", "f">>)
         = <<"v", "1", ".", "2", ".", "3", "-",
             "f", "e", "a", "t", "u", "r", "e", "-", "x", "-", "4", "-",
             "g", "a", "b", "c", "d", "e", "f">>
    /\ IsFirstGetVersion =>
          /\ memo[last.path] = last.ret
          /\ IF HasDistanceMarker(RawAt(last.path))
             THEN /\ last.ret = Injected(RawAt(last.path), BranchAt(last.path), TRUE)
                  /\ last.trace = <<Ev("describe", last.path), Ev("branch", last.path)>>
             ELSE /\ last.ret = RawAt(last.path)
                  /\ last.trace = <<Ev("describe", last.path)>>

\* C5 witness: a descriptor with two distance markers, the branch put in at the first
C5_Witness ==
    /\ IsFirstGetVersion
    /\ RawAt(last.path) = <<"r", "-", "1", "-", "x", "-", "3", "-", "g">>
    /\ last.ret = <<"r", "-", "f", "-", "x", "-", "1", "-", "x", "-", "3", "-", "g">>

\* C5 as first stated: the branch name is put in after the digits
C5_BranchAfterDigits ==
    (IsFirstGetVersion /\ HasDistanceMarker(RawAt(last.path))) =>
        last.ret = Injected(RawAt(last.path), BranchAt(last.path), FALSE)

\* the latest call read a version attribute from module a.b.c while its
\* override variable was set
IsOverridden ==
    /\ IsRead
    /\ last.frame.module = ModABC
    /\ OverrideKeyABC \in DOMAIN environ

(* C6: when the requesting module is known and its override variable       *)
(* AUTOVERSION_<NAME IN UPPER CASE> is set, the request returns that value *)
(* exactly, looks up no metadata, runs no command and leaves memo as it    *)
(* was.                                                                    *)
C6_OverrideShortCircuit ==
    IsOverridden =>
        /\ last.exc = "none"
        /\ last.ret = environ[OverrideKeyABC]
        /\ last.trace = <<Ev("environ", OverrideKeyABC)>>
        /\ memo = last.memoBefore

\* C6 witness: an overridden request made when memo already held an entry and the
\* module's own distribution was installed
C6_Witness ==
    /\ IsOverridden
    /\ last.ret = <<"9", ".", "9">>
    /\ last.memoBefore # <<>>
    /\ ModABC \in DOMAIN registry

WalkExhausted ==
    /\ IsWalk
    /\ LookedUp # <<>>
    /\ LookedUp[Len(LookedUp)] \notin DOMAIN registry

(* C8: when the walk exhausts the prefixes it tries with no match, the      *)
(* request does not fail: __version_tuple__ is (("unknown",),) and         *)
(* __version__ is None.                                                    *)
C8_ExhaustedIsNone ==
    WalkExhausted =>
        /\ last.exc = "none"
        /\ last.ret = NoneVal
        /\ last.op = "__version_tuple__" => last.tup = UnknownTuple
        /\ memo = last.memoBefore

\* C8 witness: an exhausted walk read through __version_tuple__
C8_Witness ==
    /\ WalkExhausted
    /\ last.op = "__version_tuple__"
    /\ last.tup = UnknownTuple
    /\ Len(LookedUp) = 2

\* C8 as first stated: __version__ then is an unknown-marker string
C8_UnknownMarkerString ==
    (WalkExhausted /\ last.op = "__version__") =>
        /\ last.ret # NoneVal
        /\ StartsWith(last.ret, <<"<", "u", "n", "k", "n", "o", "w", "n">>)

\* the latest call read a version attribute from a frame with no module
IsUnknownCaller == IsRead /\ last.frame.module = NoneVal

(* C9: from a frame with no module the request returns                     *)
(* "<unknown from {file}:{line}>" and consults neither the environment,    *)
(* nor the metadata, nor any command; tupleize_version maps that string,   *)
(* like None, to (("unknown",),).                                          *)
C9_UnknownCaller ==
    /\ tupleize_version(NoneVal) = UnknownTuple
    /\ IsUnknownCaller =>
          /\ last.exc = "none"
          /\ last.trace = <<>>
          /\ memo = last.memoBefore
          /\ last.frame.f_lineno = 1 =>
                last.ret = <<"<", "u", "n", "k", "n", "o", "w", "n", " ",
                             "f", "r", "o", "m", " ", "<", "s", ">", ":", "1", ">">>
          /\ last.frame.f_lineno = 12 =>
                last.ret = <<"<", "u", "n", "k", "n", "o", "w", "n", " ",
                             "f", "r", "o", "m", " ", "x", ".", "p", "y", ":",
                             "1", "2", ">">>
          /\ tupleize_version(last.ret) = UnknownTuple
          /\ last.op = "__version_tuple__" => last.tup = UnknownTuple

\* C9 witness: the tuple read from line 12 of a file with no module, the environment
\* and the metadata holding entries
C9_Witness ==
    /\ IsUnknownCaller
    /\ last.op = "__version_tuple__"
    /\ last.frame.f_lineno = 12
    /\ last.tup = UnknownTuple
    /\ environ # <<>>
    /\ registry # <<>>

(* C10: over any calls of describe and detect, memo holds at most one      *)
(* entry per path, an entry only for a path whose describe command         *)
(* succeeds, and for such a path the describe command is run at most once. *)
C10_OneDescribePerDescribedPath ==
    /\ DOMAIN memo \subseteq Paths
    /\ \A p \in Paths :
          /\ git[p].describe.exc = "none" => descCalls[p] <= 1
          /\ git[p].describe.exc = "none" => (p \in DOMAIN memo <=> descCalls[p] = 1)
          /\ git[p].describe.exc # "none" => p \notin DOMAIN memo

\* C10 witness: detect asked again of a path whose describe command succeeds
C10_Witness ==
    /\ last.op = "is_repo_instance"
    /\ last.path \in DOMAIN last.memoBefore
    /\ descCalls[last.path] = 1
    /\ last.ret = <<"True">>

\* C10 as first stated: whether its describe command succeeds or fails, no
\* path has the describe command run for it more than once
C10_OneDescribePerPath == \A p \in Paths : descCalls[p] <= 1

----------------------------------------------------------------------------
(* The grouping grammar of version texts, stated on its own: the text is   *)
(* cut at every "-" into segments, a segment at every "." into tokens;     *)
(* empty tokens and segments left without a token do not count.            *)

\* the latest call was tupleize_version(argument)
IsTupleizeCall == last.op = "tupleize_version"

Letters == {"a", "c", "d", "e", "r", "v"}

\* argument is a text of decimal digits, letters, "." and "-", and no
\* unknown-caller text
IsGrammarText ==
    /\ argument # NoneVal
    /\ ~StartsWith(argument, <<"<", "u", "n", "k", "n", "o", "w", "n">>)
    /\ \A i \in 1..Len(argument) : argument[i] \in Digits \cup Letters \cup {".", "-"}

NonEmpty(x) == x # <<>>

\* the pieces of s between the occurrences of sep
RECURSIVE PiecesOf(_, _)
PiecesOf(s, sep) ==
    IF \A i \in 1..Len(s) : s[i] # sep THEN <<s>>
    ELSE LET i == CHOOSE i \in 1..Len(s) :
                     s[i] = sep /\ \A j \in 1..(i - 1) : s[j] # sep
         IN <<SubSeq(s, 1, i - 1)>> \o PiecesOf(SubSeq(s, i + 1, Len(s)), sep)

DigitValue ==
    [c \in Digits |->
        CASE c = "0" -> 0 [] c = "1" -> 1 [] c = "2" -> 2 [] c = "3" -> 3
          [] c = "4" -> 4 [] c = "5" -> 5 [] c = "6" -> 6 [] c = "7" -> 7
          [] c = "8" -> 8 [] c = "9" -> 9]

\* the number a text of decimal digits denotes, read from the left, acc
\* being the number read so far
RECURSIVE NumberOf(_, _)
NumberOf(tok, acc) ==
    IF tok = <<>> THEN acc
    ELSE NumberOf(Tail(tok), 10 * acc + DigitValue[Head(tok)])

GrammarToken(tok) ==
    IF \A i \in 1..Len(tok) : tok[i] \in Digits
    THEN <<"int", NumberOf(tok, 0)>>
    ELSE <<"str", tok>>

\* the tokens of a segment
TokensOf(segment) ==
    LET ps == SelectSeq(PiecesOf(segment, "."), NonEmpty)
    IN [i \in 1..Len(ps) |-> GrammarToken(ps[i])]

\* the groups of a version text
GrammarGroups(s) ==
    LET segs == PiecesOf(s, "-")
    IN SelectSeq([i \in 1..Len(segs) |-> TokensOf(segs[i])], NonEmpty)

(* C11: for every text of digits, letters, "." and "-" that is neither     *)
(* None nor an unknown-caller text, tupleize_version returns the groups of  *)
(* the grammar: "." and "-" cut the text into tokens, "." is dropped, "-"  *)
(* ends a group, a token all of digits becomes the integer it denotes      *)
(* (leading zeros stripped, all zeros being 0), any other token stays a    *)
(* string; 1.0.3 gives ((1,0,3),), 1.0.3-dev gives ((1,0,3),("dev",)) and  *)
(* 1.0.3-rc-5 gives ((1,0,3),("rc",),(5,)).                                *)
C11_GroupingGrammar ==
    /\ tupleize_version(<<"1", ".", "0", ".", "3">>)
         = << <<<<"int", 1>>, <<"int", 0>>, <<"int", 3>>>> >>
    /\ tupleize_version(<<"1", ".", "0", ".", "3", "-", "d", "e", "v">>)
         = << <<<<"int", 1>>, <<"int", 0>>, <<"int", 3>>>>,
              <<<<"str", <<"d", "e", "v">>>>>> >>
    /\ tupleize_version(<<"1", ".", "0", ".", "3", "-", "r", "c", "-", "5">>)
         = << <<<<"int", 1>>, <<"int", 0>>, <<"int", 3>>>>,
              <<<<"str", <<"r", "c">>>>>>, <<<<"int", 5>>>> >>
    /\ (IsTupleizeCall /\ IsGrammarText) =>
          /\ last.exc = "none"
          /\ last.tup = GrammarGroups(argument)

\* C11 witness: 007.000-010a, leading zeros stripped, all zeros made 0, and a token
\* of digits and a letter kept a string
C11_Witness ==
    /\ IsTupleizeCall
    /\ argument = <<"0", "0", "7", ".", "0", "0", "0", "-", "0", "1", "0", "a">>
    /\ last.tup = << <<<<"int", 7>>, <<"int", 0>>>>,
                     <<<<"str", <<"0", "1", "0", "a">>>>>> >>

(* C12: tupleize_version never rejects its input: for every text (the      *)
(* empty one, those made of separators only and those without a separator *)
(* among them) and for None it returns a tuple and raises nothing.         *)
C12_NeverRejects == IsTupleizeCall => last.exc = "none"

\* the elements of a version tuple
ElementsOf(tup) == UNION { {tup[g][i] : i \in 1..Len(tup[g])} : g \in 1..Len(tup) }

\* the latest call was tupleize_version of a text that is no unknown-caller
\* text, and returned
IsTupleOfText ==
    /\ IsTupleizeCall
    /\ argument # NoneVal
    /\ ~StartsWith(argument, <<"<", "u", "n", "k", "n", "o", "w", "n">>)
    /\ last.exc = "none"

(* C18: in the tuple tupleize_version returns for a text that is neither   *)
(* None nor an unknown-caller text, every group holds an element, no       *)
(* element is "-" or the empty string, and every integer is at least 0;    *)
(* so -1, 1-, 1--2 and 1..2 give no empty group and no empty token.        *)
C18_NoEmptyGroupNoSeparator ==
    /\ tupleize_version(<<"-", "1">>) = << <<<<"int", 1>>>> >>
    /\ tupleize_version(<<"1", "-">>) = << <<<<"int", 1>>>> >>
    /\ tupleize_version(<<"1", "-", "-", "2">>) = << <<<<"int", 1>>>>, <<<<"int", 2>>>> >>
    /\ tupleize_version(<<"1", ".", ".", "2">>) = << <<<<"int", 1>>, <<"int", 2>>>> >>
    /\ IsTupleOfText =>
          /\ \A g \in 1..Len(last.tup) : last.tup[g] # <<>>
          /\ \A e \in ElementsOf(last.tup) :
                /\ e[1] \in {"int", "str"}
                /\ e[1] = "str" => e[2] \notin {<<>>, <<"-">>}
                /\ e[1] = "int" => e[2] >= 0

\* C18 witness: ..-- and -a-., texts whose separators leave empty pieces on every side
C18_Witness ==
    \/ /\ IsTupleOfText
       /\ argument = <<".", ".", "-", "-">>
       /\ last.tup = <<>>
    \/ /\ IsTupleOfText
       /\ argument = <<"-", "a", "-", ".">>
       /\ last.tup = << <<<<"str", <<"a">>>>>> >>

\* the names the walk of the latest call tried, in order: the names looked
\* up, but for getversion's own lookup of the name the walk ended on
WalkAttempts ==
    IF WalkMatched THEN SubSeq(LookedUp, 1, Len(LookedUp) - 1) ELSE LookedUp

\* the number of dot-separated components of a name
Components(name) == 1 + Cardinality({i \in 1..Len(name) : name[i] = "."})

(* C13: the walk of version_from_frame ends: it tries the module's name    *)
(* first, at most as many names as the module's name has dot-separated     *)
(* components, each shorter than the one before, and the request returns.  *)
C13_WalkShrinks ==
    IsWalk =>
        /\ last.exc = "none"
        /\ WalkAttempts # <<>>
        /\ WalkAttempts[1] = last.frame.module
        /\ Len(WalkAttempts) <= Components(last.frame.module)
        /\ \A i \in 1..(Len(WalkAttempts) - 1) :
              Len(WalkAttempts[i + 1]) < Len(WalkAttempts[i])

\* C13 witness: module a.b.c retried as a, found there and answered from the metadata
C13_Witness ==
    /\ IsWalk
    /\ WalkMatched
    /\ last.frame.module = ModABC
    /\ WalkAttempts = <<ModABC, ModA>>
    /\ last.ret = registry[ModA].version

(* C15: a Git.get_version(path) that raises, because the describe command  *)
(* failed or because the branch command failed after it, leaves memo as it *)
(* found it, with no entry for path; so every entry of memo whose raw      *)
(* descriptor holds a distance marker has the branch name put in.          *)
C15_RaiseLeavesMemoUnchanged ==
    /\ (last.op = "get_version" /\ last.exc # "none") =>
          /\ memo = last.memoBefore
          /\ last.path \notin DOMAIN memo
    /\ \A p \in DOMAIN memo :
          HasDistanceMarker(RawAt(p)) =>
              memo[p] = Injected(RawAt(p), BranchAt(p), TRUE)

\* the call now made asks what the call before it asked: detect of the same
\* path, or the version from the same frame
SameQuestionAgain ==
    /\ last.op \in {"is_repo_instance", "__version__"}
    /\ last'.op = last.op
    /\ last'.path = last.path
    /\ last'.frame = last.frame

(* C16: the environment, the metadata and what the two commands do being   *)
(* fixed, detect answers the same for a path on every call, and a module's *)
(* version request returns the same string every time: a question asked    *)
(* again gets the answer it got before.                                    *)
C16_SameAnswerEveryTime ==
    [][SameQuestionAgain => (last'.exc = last.exc /\ last'.ret = last.ret)]_vars

----------------------------------------------------------------------------
\* the threads that called Git.get_version(p)
CallersOf(p) == {t \in Threads : threads[t].path = p}

\* how often the threads of T assigned memo[path] between them
RECURSIVE StoresBy(_)
StoresBy(T) ==
    IF T = {} THEN 0
    ELSE LET t == CHOOSE t \in T : TRUE
         IN threads[t].stores + StoresBy(T \ {t})

(* C14: two threads that call Git.get_version for a path for the first     *)
(* time with nothing keeping them apart can both find the path missing     *)
(* from memo, so that the describe command is run more than once for the   *)
(* path and memo[path] is assigned more than once; when the calls are      *)
(* kept apart, the describe command (where it succeeds) is run exactly     *)
(* once for the path, by the first call, however many calls follow.        *)
C14_SerializedDescribesOnce ==
    \A p \in Paths :
        /\ descCalls[p] <= Cardinality({t \in CallersOf(p) : ~threads[t].hit})
        /\ (serialized /\ git[p].describe.exc = "none") =>
              /\ descCalls[p] <= 1
              /\ (\E t \in CallersOf(p) : threads[t].pc = "done") => descCalls[p] = 1
              /\ \A t, u \in CallersOf(p) :
                    (t # u /\ threads[t].pc = "done" /\ threads[u].pc = "done")
                        => (threads[t].hit \/ threads[u].hit)

\* C14 witness: both threads found the path missing, both ran the describe command and
\* both assigned memo[path], twice each
C14_Witness ==
    /\ ~serialized
    /\ \E p \in Paths :
          /\ CallersOf(p) = Threads
          /\ git[p].describe.exc = "none"
          /\ \A t \in Threads : threads[t].pc = "done" /\ ~threads[t].hit
          /\ descCalls[p] = 2
          /\ StoresBy(Threads) = 4

\* the descriptor of path p as a call that is not disturbed makes it: the
\* raw text, with the branch name put in where it holds a distance marker
FinalDescriptor(p) ==
    IF HasDistanceMarker(RawAt(p))
    THEN Injected(RawAt(p), BranchAt(p), TRUE)
    ELSE RawAt(p)

\* thread t has returned from its call
Returned(t) == threads[t].pc = "done" /\ threads[t].exc = "none"

(* C17: however the statements of the threads' calls of Git.get_version    *)
(* for a path fall in time, a thread that found the path in memo returns   *)
(* the final descriptor, with the branch name put in where the raw text    *)
(* holds a distance marker, never the raw text stored before the rewrite;  *)
(* it returns what the thread that made the entry returns.                 *)
C17_HitReturnsFinalDescriptor ==
    \A t \in Threads :
        (Returned(t) /\ threads[t].hit) =>
            /\ threads[t].ret = FinalDescriptor(threads[t].path)
            /\ \A u \in CallersOf(threads[t].path) :
                  Returned(u) => threads[u].ret = threads[t].ret

====
